---- MODULE Spec2Model ----
(***************************************************************************)
(* Model of libs/libstamp.py: the STAMP [RFC8762] Test / Test Reply packet *)
(* codec carried over IPv6 + SRv6 + UDP.                                   *)
(*                                                                         *)
(* The library is a set of stateless functions.  The state of the model is *)
(* the last call made on the library (function and arguments, including    *)
(* what the system clock returned during the call), what the call         *)
(* returned or raised, and the readings of the system clock it made.       *)
(*                                                                         *)
(* Python integers are unbounded.  The 32-bit wire fields, the clock and   *)
(* everything computed from them are therefore modelled as natural numbers *)
(* of arbitrary size: a sequence of base-256 digits, least significant     *)
(* first, without leading zero digits (<<>> is 0).  The narrow fields      *)
(* (S, Z, Scale, Multiplier, ssid, MBZ, SenderTTL, ports) are plain        *)
(* naturals.                                                               *)
(***************************************************************************)
EXTENDS Integers, Sequences, FiniteSets, TLC

VARIABLES
    call,   \* the last call: the function called and its arguments
    ret,    \* what the call returned, or the exception it raised
    heap,   \* the caller's mutable arguments as the call left them
    reads   \* what datetime.now() returned to the call, one entry per read

vars == <<call, ret, heap, reads>>

(***************************************************************************)
(* Unbounded naturals (Python int)                                         *)
(***************************************************************************)

RECURSIVE Norm(_)
\* drop the leading (most significant) zero digits
Norm(a) ==
    IF a = <<>> THEN <<>>
    ELSE IF a[Len(a)] = 0 THEN Norm(SubSeq(a, 1, Len(a) - 1))
    ELSE a

RECURSIVE FromNat(_)
\* the unbounded natural of a small natural
FromNat(n) == IF n = 0 THEN <<>> ELSE <<n % 256>> \o FromNat(n \div 256)

RECURSIVE AddCarry(_, _, _)
AddCarry(a, b, c) ==
    IF a = <<>> /\ b = <<>>
    THEN (IF c = 0 THEN <<>> ELSE <<c>>)
    ELSE LET x == IF a = <<>> THEN 0 ELSE Head(a)
             y == IF b = <<>> THEN 0 ELSE Head(b)
             s == x + y + c
         IN  <<s % 256>> \o AddCarry(IF a = <<>> THEN <<>> ELSE Tail(a),
                                     IF b = <<>> THEN <<>> ELSE Tail(b),
                                     s \div 256)

\* a + b
Add(a, b) == Norm(AddCarry(a, b, 0))

RECURSIVE MulDigit(_, _, _)
\* a * k + c for one digit k
MulDigit(a, k, c) ==
    IF a = <<>>
    THEN (IF c = 0 THEN <<>> ELSE <<c>>)
    ELSE LET p == Head(a) * k + c
         IN  <<p % 256>> \o MulDigit(Tail(a), k, p \div 256)

RECURSIVE Mul(_, _)
\* a * b
Mul(a, b) ==
    IF b = <<>> THEN <<>>
    ELSE Add(Norm(MulDigit(a, Head(b), 0)),
             LET rest == Mul(a, Tail(b))
             IN  IF rest = <<>> THEN <<>> ELSE <<0>> \o rest)

RECURSIVE DivMod(_, _)
\* quotient and remainder of a by a small natural k (0 < k < 2^23)
DivMod(a, k) ==
    IF a = <<>>
    THEN [q |-> <<>>, r |-> 0]
    ELSE LET rest == DivMod(Tail(a), k)
             cur  == rest.r * 256 + Head(a)
         IN  [q |-> Norm(<<cur \div k>> \o rest.q), r |-> cur % k]

RECURSIVE Pow(_, _)
\* k ^ n for a small natural k
Pow(k, n) == IF n = 0 THEN <<1>> ELSE Norm(MulDigit(Pow(k, n - 1), k, 0))


(***************************************************************************)
(* Constants and enumerations (lines 70-76, 119-138)                       *)
(***************************************************************************)

\* seconds between 1-JAN-1900 and 1-JAN-1970: (70*365 + 17)*86400 = 2208988800
TIMESTAMP_OFFSET == Mul(FromNat(70 * 365 + 17), FromNat(86400))

\* 0xFFFFFFFF
ALL_BITS_MASK == <<255, 255, 255, 255>>

\* 10**9
ALL_BITS_MASK_PTP == Pow(10, 9)

\* TimestampFormat.NTP_v4.value, TimestampFormat.PTP_V2.value
NTP_v4 == FromNat(0)
PTP_V2 == FromNat(1)

\* SyncFlag.NO_EXT_SYNC.value, SyncFlag.EXT_SYNC.value
NO_EXT_SYNC == FromNat(0)
EXT_SYNC == FromNat(1)

\* the value of timestamp_format when the caller does not pass one
DefaultTimestampFormat == "TIMESTAMP_FORMAT_NTP"

\* marks an optional argument the caller did not pass
NotPassed == "(not passed)"

\* Python's None, and a value that is not None
None == [isNone |-> TRUE]
Some(v) == [isNone |-> FALSE, val |-> v]

\* a call that returned a value, a call that raised an exception
Return(v) == [status |-> "return", value |-> v]
Raise(e) == [status |-> "raise", exc |-> e]

(***************************************************************************)
(* Timestamps (lines 141-228)                                              *)
(*                                                                         *)
(* A reading of the clock, datetime.timestamp(datetime.now()), is          *)
(* [sec, usec]: sec seconds (unbounded) and usec microseconds (0..999999)  *)
(* since the Unix epoch.  The readings are taken as exact decimals; the    *)
(* rounding of the reading to a binary double is not modelled.             *)
(***************************************************************************)

Timestamp(seconds, fraction) == [seconds |-> seconds, fraction |-> fraction]

\* int((timestamp - int(timestamp)) * mask) for a reading with usec microseconds
FractionOf(usec, mask) == DivMod(Mul(FromNat(usec), mask), 1000000).q

get_timestamp_ntp(clock) ==
    LET timestamp_seconds  == Add(clock.sec, TIMESTAMP_OFFSET)
        timestamp_fraction == FractionOf(clock.usec, ALL_BITS_MASK)
    IN  Timestamp(timestamp_seconds, timestamp_fraction)

get_timestamp_ptp(clock) ==
    LET timestamp_seconds  == Add(clock.sec, TIMESTAMP_OFFSET)
        timestamp_fraction == FractionOf(clock.usec, ALL_BITS_MASK_PTP)
    IN  Timestamp(timestamp_seconds, timestamp_fraction)

RECURSIVE Str(_)
\* str(n): the decimal digits of n, most significant first ("0" for 0)
Str(n) ==
    LET d == DivMod(n, 10)
    IN  IF d.q = <<>> THEN <<d.r>> ELSE Str(d.q) \o <<d.r>>

RECURSIVE FloatOfZeroPoint(_)
\* float('0.{fraction}'): the real number 0.d1d2...dk, kept as its digits
\* after the point without the trailing zeros (0.50 is 0.5, 0.0 is 0.)
FloatOfZeroPoint(digits) ==
    IF digits = <<>> THEN <<>>
    ELSE IF digits[Len(digits)] = 0
         THEN FloatOfZeroPoint(SubSeq(digits, 1, Len(digits) - 1))
    ELSE digits

\* The result is the real number int + 0.frac, kept as the integer part and
\* the decimal digits after the point (the rounding of the sum to a binary
\* double is not modelled).
reassemble_timestamp_ntp(timestamp_seconds, timestamp_fraction) ==
    [int  |-> timestamp_seconds,
     frac |-> FloatOfZeroPoint(Str(timestamp_fraction))]

(***************************************************************************)
(* Wire layout (lines 80-116) and the scapy field codecs                   *)
(***************************************************************************)

Field(name, type, size, default) ==
    [name |-> name, type |-> type, size |-> size, default |-> FromNat(default)]

\* STAMPTestPacket.fields_desc
STAMPTestPacket_fields_desc == <<
    Field("SequenceNumber", "IntField", 32, 0),
    Field("FirstPartTimestamp", "BitField", 32, 0),
    Field("SecondPartTimestamp", "BitField", 32, 0),
    Field("S", "BitEnumField", 1, 0),
    Field("Z", "BitField", 1, 0),
    Field("Scale", "BitField", 6, 0),
    Field("Multiplier", "BitField", 8, 1),
    Field("ssid", "ShortField", 16, 0) >>

\* STAMPReplyPacket.fields_desc
STAMPReplyPacket_fields_desc == <<
    Field("SequenceNumber", "IntField", 32, 0),
    Field("FirstPartTimestamp", "BitField", 32, 0),
    Field("SecondPartTimestamp", "BitField", 32, 0),
    Field("S", "BitEnumField", 1, 0),
    Field("Z", "BitField", 1, 0),
    Field("Scale", "BitField", 6, 0),
    Field("Multiplier", "BitField", 8, 1),
    Field("ssid", "ShortField", 16, 0),
    Field("FirstPartTimestampReceiver", "BitField", 32, 0),
    Field("SecondPartTimestampReceiver", "BitField", 32, 0),
    Field("SequenceNumberSender", "IntField", 32, 0),
    Field("FirstPartTimestampSender", "BitField", 32, 0),
    Field("SecondPartTimestampSender", "BitField", 32, 0),
    Field("SSender", "BitEnumField", 1, 0),
    Field("ZSender", "BitField", 1, 0),
    Field("ScaleSender", "BitField", 6, 0),
    Field("MultiplierSender", "BitField", 8, 1),
    Field("MBZ", "BitField", 16, 0),
    Field("SenderTTL", "ByteField", 8, 255) >>

fields_desc(cls) ==
    IF cls = "STAMPTestPacket" THEN STAMPTestPacket_fields_desc
    ELSE STAMPReplyPacket_fields_desc

FieldNames(desc) == {desc[i].name : i \in DOMAIN desc}

FieldIndex(desc, name) == CHOOSE i \in DOMAIN desc : desc[i].name = name

RECURSIVE StartBit(_, _)
\* the number of bits before field i
StartBit(desc, i) == IF i = 1 THEN 0 ELSE StartBit(desc, i - 1) + desc[i - 1].size

\* the width of the payload in bytes
PayloadLen(desc) == (StartBit(desc, Len(desc)) + desc[Len(desc)].size) \div 8

\* Packet.__init__ with keyword arguments: the fields not given keep their
\* defaults
NewLayer(cls, kwargs) ==
    [cls    |-> cls,
     fields |-> [n \in FieldNames(fields_desc(cls)) |->
                    IF n \in DOMAIN kwargs THEN kwargs[n]
                    ELSE fields_desc(cls)[FieldIndex(fields_desc(cls), n)].default]]

\* the payload of a packet received from the network: the UDP data, undecoded
Raw(load) == [cls |-> "Raw", load |-> load]

\* BitField.addfield: the size low bits of the value, most significant first
ValueBits(v, size) ==
    [i \in 1..size |->
        LET k == size - i
        IN  IF k \div 8 + 1 <= Len(v)
            THEN (v[k \div 8 + 1] \div (2 ^ (k % 8))) % 2
            ELSE 0]

\* BitField.getfield: the value of a string of bits
BitsValue(bits) ==
    LET n == Len(bits)
        bit(k) == IF k < n THEN bits[n - k] ELSE 0
    IN  Norm([j \in 1..((n + 7) \div 8) |->
                 bit(8 * (j - 1)) + 2 * bit(8 * (j - 1) + 1)
                 + 4 * bit(8 * (j - 1) + 2) + 8 * bit(8 * (j - 1) + 3)
                 + 16 * bit(8 * (j - 1) + 4) + 32 * bit(8 * (j - 1) + 5)
                 + 64 * bit(8 * (j - 1) + 6) + 128 * bit(8 * (j - 1) + 7)])

\* IntField, ShortField and ByteField pack with struct.pack, which raises
\* struct.error for a value that does not fit; a BitField masks the value
Packs(f, v) ==
    \/ f.type \in {"BitField", "BitEnumField"}
    \/ 8 * Len(v) <= f.size

RECURSIVE BuildBits(_, _)
BuildBits(desc, fields) ==
    IF desc = <<>> THEN <<>>
    ELSE ValueBits(fields[Head(desc).name], Head(desc).size)
         \o BuildBits(Tail(desc), fields)

BitsToBytes(bits) ==
    [j \in 1..(Len(bits) \div 8) |->
        128 * bits[8 * j - 7] + 64 * bits[8 * j - 6] + 32 * bits[8 * j - 5]
        + 16 * bits[8 * j - 4] + 8 * bits[8 * j - 3] + 4 * bits[8 * j - 2]
        + 2 * bits[8 * j - 1] + bits[8 * j]]

BytesToBits(s) ==
    [i \in 1..(8 * Len(s)) |->
        (s[(i - 1) \div 8 + 1] \div (2 ^ (7 - ((i - 1) % 8)))) % 2]

\* raw(layer): Packet.do_build over fields_desc
Build(cls, fields) ==
    LET desc == fields_desc(cls)
    IN  IF \E i \in DOMAIN desc : ~Packs(desc[i], fields[desc[i].name])
        THEN Raise("struct.error")
        ELSE Return(BitsToBytes(BuildBits(desc, fields)))

\* raw(payload)
raw(payload) ==
    IF payload.cls = "Raw" THEN Return(payload.load)
    ELSE Build(payload.cls, payload.fields)

\* the fields of s, of which the first avail bytes were received: a field
\* that starts at or after the end of the data keeps its default
DissectFields(cls, s, avail) ==
    LET desc == fields_desc(cls)
        bits == BytesToBits(s)
    IN  [n \in FieldNames(desc) |->
            LET i     == FieldIndex(desc, n)
                start == StartBit(desc, i)
            IN  IF start >= 8 * avail THEN desc[i].default
                ELSE BitsValue(SubSeq(bits, start + 1, start + desc[i].size))]

\* cls(s): Packet.__init__ and Packet.do_dissect.  The outcomes:
\*  - no data: dissect is not called, every field keeps its default;
\*  - at least the payload's width: every field is decoded, the rest
\*    of the data is ignored;
\*  - data that ends inside a field: the field's getfield raises
\*    struct.error;
\*  - data that ends where a field starts: scapy up to 2.4 stops
\*    dissecting there (the remaining fields keep their defaults),
\*    later releases raise struct.error.  Which one is installed is
\*    not fixed by the library, so both outcomes are possible.
Dissect(cls, s) ==
    LET desc   == fields_desc(cls)
        width  == PayloadLen(desc)
        padded == s \o [i \in 1..(width - Len(s)) |-> 0]
    IN  IF s = <<>> THEN {Return(NewLayer(cls, <<>>))}
        ELSE IF Len(s) >= width
        THEN {Return([cls |-> cls, fields |-> DissectFields(cls, s, width)])}
        ELSE IF \E i \in DOMAIN desc : StartBit(desc, i) = 8 * Len(s)
        THEN {Return([cls |-> cls,
                      fields |-> DissectFields(cls, padded, Len(s))]),
              Raise("struct.error")}
        ELSE {Raise("struct.error")}

\* packet[UDP].decode_payload_as(cls)
decode_payload_as(payload, cls) ==
    LET s == raw(payload)
    IN  IF s.status = "raise" THEN {s} ELSE Dissect(cls, s.value)

(***************************************************************************)
(* Parsing (lines 441-552)                                                 *)
(*                                                                         *)
(* A packet is [src, dst, addresses, segleft, lastentry, sport, dport,     *)
(* payload]: the IPv6 header, the segment routing header, the UDP header   *)
(* and the layer above UDP.  A function of the library returns the set of  *)
(* its possible outcomes, each [ret, heap]: what the call returns or       *)
(* raises, and the caller's mutable arguments as the call leaves them.     *)
(* The outcomes of the two builders, the only functions here that reach    *)
(* the clock, have a third field, reads: what datetime.now() returned, one *)
(* entry per read.  A received packet has its hop limit too (hlim).        *)
(***************************************************************************)

Reverse(l) == [i \in 1..Len(l) |-> l[Len(l) + 1 - i]]

\* the namedtuple StampTestPacket
StampTestPacket(src_ip, dst_ip, src_udp_port, dst_udp_port, ssid, sequence_number, timestamp_seconds, timestamp_fraction, timestamp, s_flag, z_flag, scale, multiplier) ==
    [src_ip |-> src_ip, dst_ip |-> dst_ip,
     src_udp_port |-> src_udp_port, dst_udp_port |-> dst_udp_port,
     sequence_number |-> sequence_number, ssid |-> ssid,
     timestamp |-> timestamp, timestamp_seconds |-> timestamp_seconds,
     timestamp_fraction |-> timestamp_fraction, s_flag |-> s_flag,
     z_flag |-> z_flag, scale |-> scale, multiplier |-> multiplier]

\* the namedtuple StampTestReplyPacket
StampTestReplyPacket(sequence_number, ssid, timestamp, timestamp_seconds, timestamp_fraction, s_flag, z_flag, scale, multiplier, receive_timestamp, sender_timestamp, receive_timestamp_seconds, receive_timestamp_fraction, sender_timestamp_seconds, sender_timestamp_fraction, s_flag_sender, z_flag_sender, scale_sender, multiplier_sender, ttl_sender) ==
    [sequence_number |-> sequence_number, ssid |-> ssid,
     timestamp |-> timestamp, timestamp_seconds |-> timestamp_seconds,
     timestamp_fraction |-> timestamp_fraction, s_flag |-> s_flag,
     z_flag |-> z_flag, scale |-> scale, multiplier |-> multiplier,
     receive_timestamp |-> receive_timestamp,
     receive_timestamp_seconds |-> receive_timestamp_seconds,
     receive_timestamp_fraction |-> receive_timestamp_fraction,
     sender_timestamp |-> sender_timestamp,
     sender_timestamp_seconds |-> sender_timestamp_seconds,
     sender_timestamp_fraction |-> sender_timestamp_fraction,
     s_flag_sender |-> s_flag_sender, z_flag_sender |-> z_flag_sender,
     scale_sender |-> scale_sender, multiplier_sender |-> multiplier_sender,
     ttl_sender |-> ttl_sender]

parse_stamp_test_packet(packet) ==
    { IF d.status = "raise"
      THEN [ret |-> d, heap |-> [packet |-> packet]]
      ELSE LET f == d.value.fields
               timestamp == reassemble_timestamp_ntp(f.FirstPartTimestamp,
                                                     f.SecondPartTimestamp)
           IN  [ret  |-> Return(StampTestPacket(
                            packet.src, packet.dst, packet.sport,
                            packet.dport, f.ssid, f.SequenceNumber,
                            f.FirstPartTimestamp, f.SecondPartTimestamp,
                            timestamp, f.S, f.Z, f.Scale, f.Multiplier)),
                heap |-> [packet |-> [packet EXCEPT !.payload = d.value]]]
      : d \in decode_payload_as(packet.payload, "STAMPTestPacket") }

parse_stamp_reply_packet(packet) ==
    { IF d.status = "raise"
      THEN [ret |-> d, heap |-> [packet |-> packet]]
      ELSE LET f == d.value.fields
               timestamp ==
                   reassemble_timestamp_ntp(f.FirstPartTimestamp,
                                            f.SecondPartTimestamp)
               receive_timestamp ==
                   reassemble_timestamp_ntp(f.FirstPartTimestampReceiver,
                                            f.SecondPartTimestampReceiver)
               sender_timestamp ==
                   reassemble_timestamp_ntp(f.FirstPartTimestampSender,
                                            f.SecondPartTimestampSender)
           IN  [ret  |-> Return(StampTestReplyPacket(
                            f.SequenceNumber, f.ssid, timestamp,
                            f.FirstPartTimestamp, f.SecondPartTimestamp,
                            f.S, f.Z, f.Scale, f.Multiplier,
                            receive_timestamp, sender_timestamp,
                            f.FirstPartTimestampReceiver,
                            f.SecondPartTimestampReceiver,
                            f.FirstPartTimestampSender,
                            f.SecondPartTimestampSender,
                            f.SSender, f.ZSender, f.ScaleSender,
                            f.MultiplierSender, f.SenderTTL)),
                heap |-> [packet |-> [packet EXCEPT !.payload = d.value]]]
      : d \in decode_payload_as(packet.payload, "STAMPReplyPacket") }

(***************************************************************************)
(* Building (lines 231-438)                                                *)
(***************************************************************************)

\* sidlist[::-1]: a new list; the list sliced is left as it is
ReversedSlice(sidlist) == [value |-> Reverse(sidlist), self |-> sidlist]

\* the addressing with the destination taken from dst_ip
Headers_DstIp(src_ip, dst_ip, src_udp_port, dst_udp_port, sidlist) ==
    [src       |-> src_ip,
     dst       |-> dst_ip,
     addresses |-> ReversedSlice(sidlist).value,
     segleft   |-> Len(sidlist) - 1,
     lastentry |-> Len(sidlist) - 1,
     dport     |-> dst_udp_port,
     sport     |-> src_udp_port]

\* the addressing of a packet: IPv6(), IPv6ExtHdrSegmentRouting(), UDP()
Headers(src_ip, dst_ip, src_udp_port, dst_udp_port, sidlist) ==
    [src       |-> src_ip,
     dst       |-> sidlist[1],
     addresses |-> ReversedSlice(sidlist).value,
     segleft   |-> Len(sidlist) - 1,
     lastentry |-> Len(sidlist) - 1,
     dport     |-> dst_udp_port,
     sport     |-> src_udp_port]

\* ipv6_header / srv6_header / udp_header / stamp_packet
Assemble(headers, stamp_packet) ==
    [n \in DOMAIN headers \cup {"payload"} |->
        IF n = "payload" THEN stamp_packet ELSE headers[n]]

\* whether one of the two branches that bind timestamp and
\* timestamp_format_flag is taken
TimestampBound(timestamp_format) == timestamp_format \in {"ntp", "ptp"}

TimestampFor(timestamp_format, clock) ==
    IF timestamp_format = "ntp" THEN get_timestamp_ntp(clock)
    ELSE get_timestamp_ptp(clock)

\* the readings of the clock made by the branches that bind timestamp: one,
\* by the get_timestamp_ntp() or get_timestamp_ptp() of the branch taken
\* (datetime.now() at line 163 or 196), none when no branch is taken
ClockReads(timestamp_format, clock) ==
    IF TimestampBound(timestamp_format) THEN <<clock>> ELSE <<>>

TimestampFormatFlag(timestamp_format) ==
    IF timestamp_format = "ntp" THEN NTP_v4 ELSE PTP_V2

SyncFlagOf(ext_source_sync) ==
    IF ext_source_sync THEN EXT_SYNC ELSE NO_EXT_SYNC

\* the keyword arguments of STAMPTestPacket(...) at lines 303-311
TestPacketFields(sequence_number, timestamp, sync_flag, timestamp_format_flag, scale, multiplier) ==
    [SequenceNumber      |-> sequence_number,
     FirstPartTimestamp  |-> timestamp.seconds,
     SecondPartTimestamp |-> timestamp.fraction,
     S                   |-> sync_flag,
     Z                   |-> timestamp_format_flag,
     Scale               |-> scale,
     Multiplier          |-> multiplier]

\* clock: what the system clock reads during the call
generate_stamp_test_packet(src_ip, dst_ip, src_udp_port, dst_udp_port, sidlist, ssid, sequence_number, timestamp_format, ext_source_sync, scale, multiplier, clock) ==
    LET timestamp == TimestampFor(timestamp_format, clock)
        timestamp_format_flag == TimestampFormatFlag(timestamp_format)
        sync_flag == SyncFlagOf(ext_source_sync)
    IN  IF sidlist = <<>>
        THEN {[ret |-> Raise("IndexError"), heap |-> [sidlist |-> sidlist],
               reads |-> ClockReads(timestamp_format, clock)]}
        ELSE IF ~TimestampBound(timestamp_format)
        THEN {[ret  |-> Raise("UnboundLocalError"),
               heap |-> [sidlist |-> ReversedSlice(sidlist).self],
               reads |-> ClockReads(timestamp_format, clock)]}
        ELSE {[ret  |-> Return(Assemble(
                          Headers(src_ip, dst_ip, src_udp_port, dst_udp_port,
                                  sidlist),
                          NewLayer("STAMPTestPacket",
                                   TestPacketFields(
                                       sequence_number, timestamp, sync_flag,
                                       timestamp_format_flag, scale,
                                       multiplier)))),
               heap |-> [sidlist |-> ReversedSlice(sidlist).self],
               reads |-> ClockReads(timestamp_format, clock)]}

\* "if not sender_sequence_number" in place of "is None": 0 counts as absent
SenderSequenceNumber_Falsy(sender_sequence_number, parsed_stamp_test_packet) ==
    IF sender_sequence_number = None \/ sender_sequence_number.val = FromNat(0)
    THEN parsed_stamp_test_packet.sequence_number
    ELSE sender_sequence_number.val

\* the sender's sequence number of the Reply (lines 389-394)
SenderSequenceNumber(sender_sequence_number, parsed_stamp_test_packet) ==
    IF sender_sequence_number = None
    THEN parsed_stamp_test_packet.sequence_number
    ELSE sender_sequence_number.val

\* the Reflector's fields without the receive timestamp: the two receiver
\* fields are not passed and keep their default
ReflectorFields_NoReceiveTimestamp(sequence_number, timestamp, sync_flag, timestamp_format_flag, scale, multiplier) ==
    [SequenceNumber      |-> sequence_number,
     FirstPartTimestamp  |-> timestamp.seconds,
     SecondPartTimestamp |-> timestamp.fraction,
     S                   |-> sync_flag,
     Z                   |-> timestamp_format_flag,
     Scale               |-> scale,
     Multiplier          |-> multiplier,
     MBZ                 |-> FromNat(0)]

\* the Reflector's own fields among the keyword arguments of
\* STAMPReplyPacket(...) (lines 414-423)
ReflectorFields(sequence_number, timestamp, sync_flag, timestamp_format_flag, scale, multiplier) ==
    [SequenceNumber              |-> sequence_number,
     FirstPartTimestamp          |-> timestamp.seconds,
     SecondPartTimestamp         |-> timestamp.fraction,
     S                           |-> sync_flag,
     Z                           |-> timestamp_format_flag,
     Scale                       |-> scale,
     Multiplier                  |-> multiplier,
     MBZ                         |-> FromNat(0),
     FirstPartTimestampReceiver  |-> timestamp.seconds,
     SecondPartTimestampReceiver |-> timestamp.fraction]

\* the echo with the two halves of the sender's timestamp exchanged
SenderEchoFields_Swapped(sender_sequence_number, parsed_stamp_test_packet) ==
    [SequenceNumberSender      |-> sender_sequence_number,
     FirstPartTimestampSender  |-> parsed_stamp_test_packet.timestamp_fraction,
     SecondPartTimestampSender |-> parsed_stamp_test_packet.timestamp_seconds,
     SSender                   |-> parsed_stamp_test_packet.s_flag,
     ZSender                   |-> parsed_stamp_test_packet.z_flag,
     ScaleSender               |-> parsed_stamp_test_packet.scale,
     MultiplierSender          |-> parsed_stamp_test_packet.multiplier,
     SenderTTL                 |-> FromNat(0)]

\* the echo of the sender's fields among the keyword arguments of
\* STAMPReplyPacket(...) (lines 424-431)
SenderEchoFields(sender_sequence_number, parsed_stamp_test_packet) ==
    [SequenceNumberSender      |-> sender_sequence_number,
     FirstPartTimestampSender  |-> parsed_stamp_test_packet.timestamp_seconds,
     SecondPartTimestampSender |-> parsed_stamp_test_packet.timestamp_fraction,
     SSender                   |-> parsed_stamp_test_packet.s_flag,
     ZSender                   |-> parsed_stamp_test_packet.z_flag,
     ScaleSender               |-> parsed_stamp_test_packet.scale,
     MultiplierSender          |-> parsed_stamp_test_packet.multiplier,
     SenderTTL                 |-> FromNat(0)]

\* the keyword arguments of STAMPReplyPacket(...) at lines 413-432
ReplyPacketFields(sequence_number, timestamp, sync_flag, timestamp_format_flag, scale, multiplier, sender_sequence_number, parsed_stamp_test_packet) ==
    ReflectorFields(sequence_number, timestamp, sync_flag,
                    timestamp_format_flag, scale, multiplier)
    @@ SenderEchoFields(sender_sequence_number, parsed_stamp_test_packet)

generate_stamp_reply_packet(stamp_test_packet, src_ip, dst_ip, src_udp_port, dst_udp_port, sidlist, ssid, sequence_number, timestamp_format, ext_source_sync, scale, multiplier, sender_sequence_number, clock) ==
    { LET timestamp == TimestampFor(timestamp_format, clock)
          timestamp_format_flag == TimestampFormatFlag(timestamp_format)
          sync_flag == SyncFlagOf(ext_source_sync)
      IN  IF p.ret.status = "raise"
          THEN [ret   |-> p.ret,
                heap  |-> [packet |-> p.heap.packet, sidlist |-> sidlist],
                reads |-> <<>>]
          ELSE IF sidlist = <<>>
          THEN [ret   |-> Raise("IndexError"),
                heap  |-> [packet |-> p.heap.packet, sidlist |-> sidlist],
                reads |-> ClockReads(timestamp_format, clock)]
          ELSE IF ~TimestampBound(timestamp_format)
          THEN [ret   |-> Raise("UnboundLocalError"),
                heap  |-> [packet  |-> p.heap.packet,
                           sidlist |-> ReversedSlice(sidlist).self],
                reads |-> ClockReads(timestamp_format, clock)]
          ELSE [ret  |-> Return(Assemble(
                           Headers(src_ip, dst_ip, src_udp_port, dst_udp_port,
                                   sidlist),
                           NewLayer("STAMPReplyPacket",
                                    ReplyPacketFields(
                                        sequence_number, timestamp, sync_flag,
                                        timestamp_format_flag, scale,
                                        multiplier,
                                        SenderSequenceNumber(
                                            sender_sequence_number,
                                            p.ret.value),
                                        p.ret.value)))),
                heap  |-> [packet  |-> p.heap.packet,
                           sidlist |-> ReversedSlice(sidlist).self],
                reads |-> ClockReads(timestamp_format, clock)]
      : p \in parse_stamp_test_packet(stamp_test_packet) }

(***************************************************************************)
(* The inputs                                                              *)
(***************************************************************************)

\* the longest segment list
MaxSidLen == 3

\* the longest run of bytes added after a payload as padding
MaxPadding == 2

U32Max == <<255, 255, 255, 255>>

Paths == { <<"fcff:1::1", "fcff:2::1", "fcff:3::1", "fcff:4::1">>,
           <<"fcff:3::1", "fcff:1::1", "fcff:2::1", "fcff:4::1">> }

\* the segment lists, the empty one included
SidLists == { SubSeq(p, 1, n) : p \in Paths, n \in 0..MaxSidLen }

SrcIps == {"fcff:8::1"}
DstIps == {"fcff:9::1", "fcff:2::1"}
UdpPorts == {[src |-> 20000, dst |-> 862]}

Ssids == {FromNat(0), FromNat(100)}

SequenceNumbers == {FromNat(0), FromNat(1), U32Max}

\* timestamp_format as the caller passes it, or does not
FormatArgs == {"ntp", "ptp", "foo", NotPassed}

\* ext_source_sync, scale, multiplier
ErrorEstimateArgs ==
    { [ext_source_sync |-> FALSE, scale |-> FromNat(0), multiplier |-> FromNat(1)],
      [ext_source_sync |-> TRUE, scale |-> FromNat(63), multiplier |-> FromNat(255)],
      [ext_source_sync |-> FALSE, scale |-> FromNat(1), multiplier |-> FromNat(0)] }

\* the Reflector's own sequence_number and ssid
ReflectorArgs ==
    { [sequence_number |-> FromNat(0), ssid |-> FromNat(0)],
      [sequence_number |-> FromNat(7), ssid |-> FromNat(100)] }

\* the Reflector's own ext_source_sync, scale, multiplier
ReflectorErrorEstimateArgs ==
    { ee \in ErrorEstimateArgs : ee.multiplier # FromNat(0) }

\* sender_sequence_number
SenderSequenceNumberArgs == {None, Some(FromNat(0)), Some(U32Max)}

\* readings of the clock: 4-NOV-2021 04:26:40.25 UTC, and
\* 7-FEB-2036 06:28:20.999999 UTC, four seconds after the NTP era ends
ClockReadings ==
    { [sec |-> FromNat(1636000000), usec |-> 250000],
      [sec |-> FromNat(2085978500), usec |-> 999999] }

\* a packet as the network delivers it: the UDP data is not decoded
Received(load) ==
    [src |-> "fcff:8::1", dst |-> "fcff:1::1", hlim |-> 64,
     addresses |-> <<"fcff:1::1">>, segleft |-> 0, lastentry |-> 0,
     sport |-> 20000, dport |-> 862, payload |-> Raw(load)]

Zeros(n) == [i \in 1..n |-> 0]

\* the data of a payload as received: whole, cut short or padded
Deliveries(load, cuts) ==
    {load} \cup {SubSeq(load, 1, n) : n \in cuts}
    \cup {load \o Zeros(n) : n \in 1..MaxPadding}

\* fields of Test packets on the wire: either sequence number with either
\* timestamp and error estimate
WireTestFields ==
    { [SequenceNumber |-> sn, FirstPartTimestamp |-> r.seconds,
       SecondPartTimestamp |-> r.fraction, S |-> r.S, Z |-> r.Z,
       Scale |-> r.Scale, Multiplier |-> r.Multiplier, ssid |-> r.ssid] :
      sn \in {FromNat(1), U32Max},
      r \in {[seconds |-> FromNat(0), fraction |-> FromNat(0),
              S |-> FromNat(0), Z |-> FromNat(0), Scale |-> FromNat(0),
              Multiplier |-> FromNat(1), ssid |-> FromNat(0)],
             [seconds |-> <<128, 223, 45, 229>>, fraction |-> U32Max,
              S |-> FromNat(1), Z |-> FromNat(1), Scale |-> FromNat(63),
              Multiplier |-> FromNat(255), ssid |-> FromNat(100)]} }

\* Test packets as the Reflector receives them
RxTestPackets ==
    { Received(Build("STAMPTestPacket", f).value) : f \in WireTestFields }
    \cup { Received(d) :
           d \in Deliveries(
                   Build("STAMPTestPacket",
                         CHOOSE f \in WireTestFields :
                             f.SequenceNumber = U32Max /\ f.S = FromNat(1)
                             /\ f.FirstPartTimestamp # FromNat(0)).value,
                   {0, 3, 4, 13, 15}) }
    \cup { [Received(Build("STAMPTestPacket", f).value) EXCEPT !.hlim = h] :
           f \in {g \in WireTestFields : g.SequenceNumber = FromNat(1)
                                         /\ g.S = FromNat(1)},
           h \in {1, 255} }

\* Reply packets as the Sender receives them
RxReplyPackets ==
    { Received(d) :
      d \in UNION { Deliveries(
                      Build("STAMPReplyPacket",
                            NewLayer("STAMPReplyPacket",
                                     [SequenceNumber |-> FromNat(7),
                                      SequenceNumberSender |-> sn,
                                      FirstPartTimestampSender |-> U32Max,
                                      SSender |-> FromNat(1),
                                      MBZ |-> FromNat(0),
                                      SenderTTL |-> FromNat(64)]).fields
                           ).value,
                      {0, 5, 16, 40}) : sn \in {FromNat(9), U32Max} } }

\* timestamp_format in the call: the default when the caller passes none
Passed(arg, default) == IF arg = NotPassed THEN default ELSE arg

(***************************************************************************)
(* The calls                                                               *)
(*                                                                         *)
(* The library keeps no state between calls, so a behaviour is one call    *)
(* made on the library by a caller that has made none (Idle), followed,    *)
(* when the call built a packet, by the parse of that packet.              *)
(***************************************************************************)

Idle == call.op = "none"

GetTimestampNtp ==
    \E clock \in ClockReadings :
        /\ Idle
        /\ call' = [op |-> "get_timestamp_ntp", clock |-> clock]
        /\ ret' = Return(get_timestamp_ntp(clock))
        /\ heap' = [none |-> TRUE]
        /\ reads' = <<clock>>

GetTimestampPtp ==
    \E clock \in ClockReadings :
        /\ Idle
        /\ call' = [op |-> "get_timestamp_ptp", clock |-> clock]
        /\ ret' = Return(get_timestamp_ptp(clock))
        /\ heap' = [none |-> TRUE]
        /\ reads' = <<clock>>

ReassembleTimestampNtp ==
    \E timestamp_seconds \in {FromNat(0), FromNat(3), U32Max},
       timestamp_fraction \in {FromNat(0), FromNat(1), FromNat(5), FromNat(10),
                               FromNat(50), FromNat(499999999), U32Max} :
        /\ Idle
        /\ call' = [op |-> "reassemble_timestamp_ntp",
                    timestamp_seconds |-> timestamp_seconds,
                    timestamp_fraction |-> timestamp_fraction]
        /\ ret' = Return(reassemble_timestamp_ntp(timestamp_seconds,
                                                  timestamp_fraction))
        /\ heap' = [none |-> TRUE]
        /\ reads' = <<>>

GenerateStampTestPacket ==
    \E src_ip \in SrcIps, dst_ip \in DstIps, port \in UdpPorts,
       sidlist \in SidLists, ssid \in Ssids,
       sequence_number \in SequenceNumbers, timestamp_format \in FormatArgs,
       ee \in ErrorEstimateArgs, clock \in ClockReadings :
        /\ Idle
        /\ \E o \in generate_stamp_test_packet(
                     src_ip, dst_ip, port.src, port.dst, sidlist, ssid,
                     sequence_number,
                     Passed(timestamp_format, DefaultTimestampFormat),
                     ee.ext_source_sync, ee.scale, ee.multiplier, clock) :
            /\ call' = [op |-> "generate_stamp_test_packet",
                        src_ip |-> src_ip, dst_ip |-> dst_ip,
                        src_udp_port |-> port.src, dst_udp_port |-> port.dst,
                        sidlist |-> sidlist, ssid |-> ssid,
                        sequence_number |-> sequence_number,
                        timestamp_format |-> timestamp_format,
                        ext_source_sync |-> ee.ext_source_sync,
                        scale |-> ee.scale, multiplier |-> ee.multiplier,
                        clock |-> clock]
            /\ ret' = o.ret
            /\ heap' = o.heap
            /\ reads' = o.reads

GenerateStampReplyPacket ==
    \E stamp_test_packet \in RxTestPackets,
       src_ip \in SrcIps, dst_ip \in {"fcff:9::1"}, port \in UdpPorts,
       sidlist \in SidLists, r \in ReflectorArgs,
       timestamp_format \in FormatArgs, ee \in ReflectorErrorEstimateArgs,
       sender_sequence_number \in SenderSequenceNumberArgs,
       clock \in ClockReadings :
        /\ Idle
        /\ \E o \in generate_stamp_reply_packet(
                     stamp_test_packet, src_ip, dst_ip, port.src, port.dst,
                     sidlist, r.ssid, r.sequence_number,
                     Passed(timestamp_format, DefaultTimestampFormat),
                     ee.ext_source_sync, ee.scale, ee.multiplier,
                     sender_sequence_number, clock) :
            /\ call' = [op |-> "generate_stamp_reply_packet",
                        stamp_test_packet |-> stamp_test_packet,
                        src_ip |-> src_ip, dst_ip |-> dst_ip,
                        src_udp_port |-> port.src, dst_udp_port |-> port.dst,
                        sidlist |-> sidlist, ssid |-> r.ssid,
                        sequence_number |-> r.sequence_number,
                        timestamp_format |-> timestamp_format,
                        ext_source_sync |-> ee.ext_source_sync,
                        scale |-> ee.scale, multiplier |-> ee.multiplier,
                        sender_sequence_number |-> sender_sequence_number,
                        clock |-> clock]
            /\ ret' = o.ret
            /\ heap' = o.heap
            /\ reads' = o.reads

\* the packet parsed is one the network delivered, or the one just built
ParseStampTestPacket ==
    \E packet \in (IF Idle THEN RxTestPackets ELSE {}) \cup
                  (IF call.op = "generate_stamp_test_packet"
                      /\ ret.status = "return"
                   THEN {ret.value} ELSE {}) :
        \E o \in parse_stamp_test_packet(packet) :
            /\ call' = [op |-> "parse_stamp_test_packet", packet |-> packet]
            /\ ret' = o.ret
            /\ heap' = o.heap
            /\ reads' = <<>>

ParseStampReplyPacket ==
    \E packet \in (IF Idle THEN RxReplyPackets ELSE {}) \cup
                  (IF call.op = "generate_stamp_reply_packet"
                      /\ ret.status = "return"
                   THEN {ret.value} ELSE {}) :
        \E o \in parse_stamp_reply_packet(packet) :
            /\ call' = [op |-> "parse_stamp_reply_packet", packet |-> packet]
            /\ ret' = o.ret
            /\ heap' = o.heap
            /\ reads' = <<>>

Init ==
    /\ call = [op |-> "none"]
    /\ ret = [status |-> "none"]
    /\ heap = [none |-> TRUE]
    /\ reads = <<>>

Next ==
    \/ GetTimestampNtp
    \/ GetTimestampPtp
    \/ ReassembleTimestampNtp
    \/ GenerateStampTestPacket
    \/ GenerateStampReplyPacket
    \/ ParseStampTestPacket
    \/ ParseStampReplyPacket

Spec == Init /\ [][Next]_vars

(***************************************************************************)
(* Properties                                                              *)
(***************************************************************************)

BuiltTest == call.op = "generate_stamp_test_packet" /\ ret.status = "return"

BuiltReply == call.op = "generate_stamp_reply_packet" /\ ret.status = "return"

\* the data of the packet begins with the encoding of the Test fields f
Carries(packet, f) ==
    LET load == packet.payload.load
        enc  == Build("STAMPTestPacket", f).value
    IN  Len(load) >= Len(enc) /\ SubSeq(load, 1, Len(enc)) = enc

\* the Reply fields r echo the timestamp and the error estimate of the Test
\* fields f
EchoesTimestampAndErrorEstimate(r, f) ==
    /\ r.FirstPartTimestampSender = f.FirstPartTimestamp
    /\ r.SecondPartTimestampSender = f.SecondPartTimestamp
    /\ r.SSender = f.S
    /\ r.ZSender = f.Z
    /\ r.ScaleSender = f.Scale
    /\ r.MultiplierSender = f.Multiplier

\* C1: a Reply built without sender_sequence_number carries, in its sender
\* block, the sequence number, the timestamp and the error estimate of the
\* Test packet it answers, field by field and byte by byte (bytes 24..37 of
\* the Reply are bytes 0..13 of the Test packet), whatever the Reflector's
\* own arguments are.
ReplyEchoFidelity ==
    (BuiltReply /\ call.sender_sequence_number = None) =>
        \A f \in WireTestFields :
            Carries(call.stamp_test_packet, f) =>
                /\ ret.value.payload.fields.SequenceNumberSender
                       = f.SequenceNumber
                /\ EchoesTimestampAndErrorEstimate(ret.value.payload.fields, f)
                /\ SubSeq(raw(ret.value.payload).value, 25, 38)
                       = SubSeq(call.stamp_test_packet.payload.load, 1, 14)

\* C1 happens: a Reply numbered 7 by the Reflector echoes the sequence
\* number 2^32 - 1, the S flag and the multiplier of a padded Test packet.
ReplyEchoFidelityWitness ==
    /\ BuiltReply
    /\ call.sender_sequence_number = None
    /\ call.sequence_number = FromNat(7)
    /\ call.ext_source_sync = FALSE
    /\ Len(call.stamp_test_packet.payload.load) > 16
    /\ \E f \in WireTestFields :
           /\ Carries(call.stamp_test_packet, f)
           /\ f.SequenceNumber = U32Max
           /\ f.S = FromNat(1)
    /\ ret.value.payload.fields.SequenceNumberSender = U32Max
    /\ ret.value.payload.fields.SSender = FromNat(1)
    /\ ret.value.payload.fields.MultiplierSender = FromNat(255)

\* C2: a Reply built with sender_sequence_number = v carries v as its
\* sender sequence number (decoded from the payload built), whatever the
\* Test packet's sequence number is, v = 0 included; the timestamp and the
\* error estimate echoed are still those of the Test packet.
StatelessOverride ==
    (BuiltReply /\ call.sender_sequence_number # None) =>
        /\ \A d \in decode_payload_as(ret.value.payload, "STAMPReplyPacket") :
               /\ d.status = "return"
               /\ d.value.fields.SequenceNumberSender
                      = call.sender_sequence_number.val
        /\ \A f \in WireTestFields :
               Carries(call.stamp_test_packet, f) =>
                   EchoesTimestampAndErrorEstimate(ret.value.payload.fields, f)

\* C2 happens: the override 0 replaces the sequence number 2^32 - 1 of the
\* Test packet.
StatelessOverrideWitness ==
    /\ BuiltReply
    /\ call.sender_sequence_number = Some(FromNat(0))
    /\ \E f \in WireTestFields :
           /\ Carries(call.stamp_test_packet, f)
           /\ f.SequenceNumber = U32Max
           /\ f.Scale = FromNat(63)
    /\ ret.value.payload.fields.SequenceNumberSender = FromNat(0)
    /\ ret.value.payload.fields.ScaleSender = FromNat(63)

Captured(timestamp_format, clock) ==
    IF timestamp_format = "ntp" THEN get_timestamp_ntp(clock)
    ELSE get_timestamp_ptp(clock)

\* C3: parsing the Test packet built from a valid input with the format
\* 'ntp' or 'ptp' yields the sequence number, the scale and the multiplier
\* passed, s_flag = 1 exactly when ext_source_sync, z_flag = 0 for 'ntp' and
\* 1 for 'ptp', and the seconds and the fraction of the timestamp captured
\* during the build.
TestRoundTrip ==
    (BuiltTest /\ call.timestamp_format \in {"ntp", "ptp"}) =>
        \A o \in parse_stamp_test_packet(ret.value) :
            /\ o.ret.status = "return"
            /\ o.ret.value.sequence_number = call.sequence_number
            /\ o.ret.value.scale = call.scale
            /\ o.ret.value.multiplier = call.multiplier
            /\ o.ret.value.s_flag
                   = (IF call.ext_source_sync THEN FromNat(1) ELSE FromNat(0))
            /\ o.ret.value.z_flag
                   = (IF call.timestamp_format = "ntp" THEN FromNat(0)
                      ELSE FromNat(1))
            /\ o.ret.value.timestamp_seconds
                   = Captured(call.timestamp_format, call.clock).seconds
            /\ o.ret.value.timestamp_fraction
                   = Captured(call.timestamp_format, call.clock).fraction

\* the SSID decoded from the payload of the packet built
DecodedSsids(packet, cls) ==
    { IF d.status = "return" THEN Some(d.value.fields.ssid) ELSE None :
      d \in decode_payload_as(packet.payload, cls) }

\* C4: the SSID decoded from the payload of a Test packet, or of a Reply,
\* is the ssid the packet was built with.
SsidOnTheWire ==
    /\ BuiltTest =>
           DecodedSsids(ret.value, "STAMPTestPacket") = {Some(call.ssid)}
    /\ BuiltReply =>
           DecodedSsids(ret.value, "STAMPReplyPacket") = {Some(call.ssid)}

\* the arguments of the build other than timestamp_format are valid: the
\* segment list is not empty and the Test packet answered is whole
OtherwiseValid ==
    /\ call.sidlist # <<>>
    /\ call.op = "generate_stamp_reply_packet" =>
           Len(call.stamp_test_packet.payload.load)
               >= PayloadLen(STAMPTestPacket_fields_desc)

\* C6: a build asked for a timestamp format that is neither 'ntp' nor 'ptp'
\* (its other arguments being valid) fails with UnsupportedTimestampFormat
\* and returns no packet.
FormatRejection ==
    (/\ call.op \in {"generate_stamp_test_packet",
                     "generate_stamp_reply_packet"}
     /\ call.timestamp_format \notin {"ntp", "ptp", NotPassed}
     /\ OtherwiseValid) =>
        /\ ret.status = "raise"
        /\ ret.exc = "UnsupportedTimestampFormat"

\* C7: a build called without timestamp_format behaves as the same call
\* with 'ntp': it returns what that call returns (a packet carrying an NTP
\* timestamp with Z = 0, when the other arguments are valid).
DefaultFormatIsNtp ==
    /\ (call.op = "generate_stamp_test_packet"
        /\ call.timestamp_format = NotPassed) =>
           [ret |-> ret, heap |-> heap, reads |-> reads] \in
               generate_stamp_test_packet(
                   call.src_ip, call.dst_ip, call.src_udp_port,
                   call.dst_udp_port, call.sidlist, call.ssid,
                   call.sequence_number, "ntp", call.ext_source_sync,
                   call.scale, call.multiplier, call.clock)
    /\ (call.op = "generate_stamp_reply_packet"
        /\ call.timestamp_format = NotPassed) =>
           [ret |-> ret, heap |-> heap, reads |-> reads] \in
               generate_stamp_reply_packet(
                   call.stamp_test_packet, call.src_ip, call.dst_ip,
                   call.src_udp_port, call.dst_udp_port, call.sidlist,
                   call.ssid, call.sequence_number, "ntp",
                   call.ext_source_sync, call.scale, call.multiplier,
                   call.sender_sequence_number, call.clock)

\* the width of the payload a parse function decodes
WidthParsed(op) ==
    IF op = "parse_stamp_test_packet"
    THEN PayloadLen(STAMPTestPacket_fields_desc)
    ELSE PayloadLen(STAMPReplyPacket_fields_desc)

\* C8: parsing a payload shorter than the width of its kind, the empty
\* payload included, fails with MalformedPacket and returns no record.
MalformedInput ==
    (/\ call.op \in {"parse_stamp_test_packet", "parse_stamp_reply_packet"}
     /\ call.packet.payload.cls = "Raw"
     /\ Len(call.packet.payload.load) < WidthParsed(call.op)) =>
        /\ ret.status = "raise"
        /\ ret.exc = "MalformedPacket"

\* C9: the record parse_stamp_reply_packet returns has a field for the
\* sender's sequence number, equal to SequenceNumberSender of the payload.
ReplyParseCompleteness ==
    (call.op = "parse_stamp_reply_packet" /\ ret.status = "return") =>
        \E n \in DOMAIN ret.value \cap
                 {"sender_sequence_number", "sequence_number_sender"} :
            ret.value[n] = heap.packet.payload.fields.SequenceNumberSender

RECURSIVE LessFrom(_, _, _)
LessFrom(a, b, i) ==
    IF i = 0 THEN FALSE
    ELSE IF a[i] # b[i] THEN a[i] < b[i]
    ELSE LessFrom(a, b, i - 1)

\* a < b
Less(a, b) ==
    IF Len(a) # Len(b) THEN Len(a) < Len(b) ELSE LessFrom(a, b, Len(a))

RECURSIVE FromDigits(_)
\* the natural number written with the decimal digits given
FromDigits(digits) ==
    IF digits = <<>> THEN <<>>
    ELSE Add(Norm(MulDigit(FromDigits(SubSeq(digits, 1, Len(digits) - 1)),
                           10, 0)),
             FromNat(digits[Len(digits)]))

\* x < y for two reals kept as integer part and decimal digits
RealLess(x, y) ==
    \/ Less(x.int, y.int)
    \/ /\ x.int = y.int
       /\ LET n == IF Len(x.frac) > Len(y.frac) THEN Len(x.frac)
                   ELSE Len(y.frac)
          IN  Less(FromDigits(x.frac \o Zeros(n - Len(x.frac))),
                   FromDigits(y.frac \o Zeros(n - Len(y.frac))))

\* C10: reassemble_timestamp_ntp(s, f) is s + f / 2^32: its integer part is
\* s and its fractional part times 2^32 is f; so, for the same seconds, a
\* smaller fraction gives a smaller timestamp.
NtpReassembly ==
    call.op = "reassemble_timestamp_ntp" =>
        /\ ret.value.int = call.timestamp_seconds
        /\ Mul(FromDigits(ret.value.frac), Pow(2, 32))
               = Mul(call.timestamp_fraction, Pow(10, Len(ret.value.frac)))
        /\ \A f2 \in {FromNat(10), FromNat(50), U32Max} :
               Less(call.timestamp_fraction, f2) =>
                   RealLess(ret.value,
                            reassemble_timestamp_ntp(call.timestamp_seconds,
                                                     f2))

\* n modulo 2^32: the four low-order bytes of n
Low32(n) == Norm(SubSeq(n, 1, IF Len(n) < 4 THEN Len(n) ELSE 4))

\* n is in 0..2^32-1
FitsU32(n) == Len(n) <= 4

\* C11: whatever the system clock reads, get_timestamp_ntp and
\* get_timestamp_ptp return a Timestamp whose seconds and fraction are both
\* in 0..2^32-1, the seconds being the clock's seconds plus TIMESTAMP_OFFSET
\* modulo 2^32.
TimestampFieldWidth ==
    call.op \in {"get_timestamp_ntp", "get_timestamp_ptp"} =>
        /\ FitsU32(ret.value.seconds)
        /\ FitsU32(ret.value.fraction)
        /\ ret.value.seconds = Low32(Add(call.clock.sec, TIMESTAMP_OFFSET))

\* C12: a call of generate_stamp_reply_packet that returns a packet reads
\* the clock exactly once; the Reply returned has, as built and as decoded
\* from its bytes, a Receive Timestamp equal to its own Timestamp (the
\* timestamp of that one reading), MBZ = 0 and SenderTTL = 0, whatever Test
\* packet was received.
SingleTimestampCapture ==
    BuiltReply =>
        /\ Len(reads) = 1
        /\ LET f == ret.value.payload.fields
               t == Captured(Passed(call.timestamp_format,
                                    DefaultTimestampFormat), reads[1])
           IN  /\ f.FirstPartTimestamp = t.seconds
               /\ f.SecondPartTimestamp = t.fraction
               /\ f.FirstPartTimestampReceiver = f.FirstPartTimestamp
               /\ f.SecondPartTimestampReceiver = f.SecondPartTimestamp
               /\ f.MBZ = FromNat(0)
               /\ f.SenderTTL = FromNat(0)
        /\ \A d \in decode_payload_as(ret.value.payload, "STAMPReplyPacket") :
               /\ d.status = "return"
               /\ d.value.fields.FirstPartTimestampReceiver
                      = d.value.fields.FirstPartTimestamp
               /\ d.value.fields.SecondPartTimestampReceiver
                      = d.value.fields.SecondPartTimestamp
               /\ d.value.fields.MBZ = FromNat(0)
               /\ d.value.fields.SenderTTL = FromNat(0)

\* C12 happens: a Test packet received with the hop limit 1 and a timestamp
\* fraction of 2^32 - 1 is answered in 2021 with a Reply whose Receive
\* Timestamp and Timestamp are both the one reading of the clock (fraction
\* 2^30 - 1), and whose SenderTTL is 0.
SingleTimestampCaptureWitness ==
    /\ BuiltReply
    /\ call.stamp_test_packet.hlim = 1
    /\ call.timestamp_format = "ntp"
    /\ call.clock = [sec |-> FromNat(1636000000), usec |-> 250000]
    /\ reads = <<call.clock>>
    /\ LET f == ret.value.payload.fields
       IN  /\ f.FirstPartTimestampReceiver
                  = Add(FromNat(1636000000), TIMESTAMP_OFFSET)
           /\ f.FirstPartTimestamp = f.FirstPartTimestampReceiver
           /\ f.SecondPartTimestampReceiver = FromNat(1073741823)
           /\ f.SecondPartTimestamp = f.SecondPartTimestampReceiver
           /\ f.SecondPartTimestampSender = U32Max
           /\ f.SenderTTL = FromNat(0)
           /\ f.MBZ = FromNat(0)
====
